---- MODULE Spec2Model ----
(***************************************************************************)
(* Model of torch_classifier (src/Models/torch/torch_classifier.py): the   *)
(* paired single / multi / refined training procedure and its report.      *)
(*                                                                         *)
(* Python indices are 0-based, the sequences here are 1-based: Python's    *)
(* forward_pass[4] is forward_pass[5] here, weight.data[1] is row 2.       *)
(*                                                                         *)
(* Numerical values are abstracted:                                        *)
(*  - a tensor is a sequence of rows; a row records how it was initialised *)
(*    (default initializer draw, or torch.zeros) and how many optimizer    *)
(*    steps have updated it in place;                                      *)
(*  - tensors live in a heap and a model holds references to them, so that *)
(*    shared storage between two models is expressible;                    *)
(*  - a validation score of an epoch is one of 0..MaxScore, 0 standing for *)
(*    an area-under-ROC of exactly 0 and larger numbers for larger areas;  *)
(*  - a final metric is the record of what it was computed from.           *)
(* loss_plot (lines 297-315) only reads the histories and is left out, as  *)
(* are the train-loss lists, which nothing reads.                          *)
(***************************************************************************)
EXTENDS Integers, Sequences, FiniteSets, TLC

\* ---------------------------------------------------------------- bounds
MaxEpochs == 2
MaxPatience == 2
MaxStartUp == 2
MaxScore == 1

\* ------------------------------------------------------------------ data
\* data["e1_train"], data["e2_train"]: one binary label per training row.
e1_train == <<1, 0, 0, 1, 0, 0>>
e2_train == <<1, 1, 0, 0, 0, 1>>
\* data["x_train"]: a row is identified by its row number; its columns are
\* the features.
FeatureNames == <<"f1", "f2">>
x_train == [i \in 1..Len(e1_train) |-> i]
\* fixed_config["batch_size"]
batch_size == Len(FeatureNames)
\* fixed_config["random_seed"]
RandomSeeds == {1}

None == [given |-> FALSE, hidden_layers |-> <<>>]
Config(h) == [given |-> TRUE, hidden_layers |-> h]
SingleConfigs == {None, Config(<<2>>)}
MultiConfigs == {None, Config(<<2>>), Config(<<3, 2>>), Config(<<2, 2, 2>>),
                 Config(<<2, 3, 2>>)}

\* ------------------------------------------------- external collaborators
\* train_test_split(..., random_state=seed, test_size=0.2, stratify=e1_train):
\* a seeded, stratified shuffle of the six rows into four training rows and
\* two validation rows (row numbers of x_train, in the order returned). The
\* rows are those sklearn's StratifiedShuffleSplit draws from numpy's
\* RandomState(seed) for this e1_train, tabulated for the seeds 0..3.
train_test_split(seed) ==
    CASE seed = 0 -> [train |-> <<5, 3, 6, 1>>, val |-> <<2, 4>>]
      [] seed = 1 -> [train |-> <<6, 2, 1, 5>>, val |-> <<4, 3>>]
      [] seed = 2 -> [train |-> <<5, 6, 3, 4>>, val |-> <<1, 2>>]
      [] seed = 3 -> [train |-> <<3, 2, 1, 6>>, val |-> <<5, 4>>]

\* create_batches(num_samples, batch_size, num_epochs, random_seed): for each
\* epoch an ordered partition of 1..num_samples into batches; the same
\* schedule for the same arguments.
create_batches(num_samples, bsize, num_epochs, seed) ==
    [k \in 1..num_epochs |->
        LET order == [i \in 1..num_samples |->
                         ((i - 1 + seed + k) % num_samples) + 1]
            nb == (num_samples + bsize - 1) \div bsize
        IN [j \in 1..nb |->
              SubSeq(order, (j - 1) * bsize + 1,
                     IF j * bsize > num_samples THEN num_samples ELSE j * bsize)]]

\* ----------------------------------------------------------------- state
VARIABLES
    \* arguments
    single_config, multi_config, performance, run_refined,
    epochs, patience, start_up, random_seed,
    \* locals of torch_classifier
    x_sub_train, x_sub_val, e1_sub_train, e2_sub_train, train_epochs,
    single_valid_loss_list, multi_valid_loss_list, refined_valid_loss_list,
    best_single_val_loss, best_multi_val_loss, best_refined_val_loss,
    start_up_counter, patience_counter,
    single_model, multi_model, refined_model,
    single_valid, multi_valid,
    X, Y,
    \* the names bound so far in the local namespace
    bound,
    \* process-wide generator state, tensor storage
    rng, heap,
    \* position: statement and epoch of the running loop; the outcome
    pc, e, result

args == <<single_config, multi_config, performance, run_refined,
          epochs, patience, start_up, random_seed>>
split == <<x_sub_train, x_sub_val, e1_sub_train, e2_sub_train, train_epochs>>
lists == <<single_valid_loss_list, multi_valid_loss_list, refined_valid_loss_list>>
bests == <<best_single_val_loss, best_multi_val_loss, best_refined_val_loss>>
counters == <<start_up_counter, patience_counter>>
models == <<single_model, multi_model, refined_model>>
valids == <<single_valid, multi_valid>>
vars == <<args, split, lists, bests, counters, models, valids, X, Y, bound,
          rng, heap, pc, e, result>>

\* The outcome of the call: nothing yet, a returned value, or the exception
\* raised and the source line raising it.
NoResult == [kind |-> "none", exc |-> "", line |-> 0, values |-> <<>>]
Raise(exc, line) == [kind |-> "raise", exc |-> exc, line |-> line, values |-> <<>>]
Return(kind, values) == [kind |-> kind, exc |-> "", line |-> 0, values |-> values]

\* --------------------------------------------------------- seeds, tensors
\* A seeding that leaves the generator where it is.
set_torch_seed_no_restart(seed) == [seed |-> seed, draws |-> rng.draws]

\* set_torch_seed: every generator restarts from the seed.
set_torch_seed(seed) == [seed |-> seed, draws |-> 0]

\* A tensor drawn by the default initializer: which draw of which seed it
\* is, its number of rows, the rows since overwritten with torch.zeros, and
\* the number of optimizer steps that have updated its storage in place.
DefaultTensor(g, k, n) ==
    [seed |-> g.seed, draw |-> g.draws + k, rows |-> n, zero_rows |-> {},
     steps |-> 0]

\* The Linear layers of NeuralNet(layers): layer i maps layers[i] inputs to
\* layers[i+1] outputs; parameter 2i-1 is its weight, 2i its bias.
NumLinear(layers) == Len(layers) - 1
NumParams(layers) == 2 * NumLinear(layers)
OutFeatures(layers, k) == layers[((k + 1) \div 2) + 1]

\* The parameter tensors the default initializer draws, in named_parameters
\* order, each from the next draw of the generator.
DefaultTensors(layers, g) ==
    [k \in 1..NumParams(layers) |->
        DefaultTensor(g, k - 1, OutFeatures(layers, k))]

\* forward_pass of NeuralNet(layers): Linear, activation, ..., Linear, sigmoid.
\* refs[k] is the reference (heap address, number of rows used) of parameter k.
ForwardPass(layers, refs) ==
    [p \in 1..(2 * NumLinear(layers)) |->
        IF p % 2 = 1
        THEN [type |-> "Linear", weight |-> <<refs[p]>>, bias |-> <<refs[p + 1]>>]
        ELSE [type |-> IF p = 2 * NumLinear(layers) THEN "Sigmoid" ELSE "Activation",
              weight |-> <<>>, bias |-> <<>>]]

\* NeuralNet(layers, activation): fresh tensors from the default initializer.
NeuralNet(layers, g, h) ==
    LET refs == [k \in 1..NumParams(layers) |->
                    [addr |-> Len(h) + k, rows |-> OutFeatures(layers, k)]]
    IN [model |-> ForwardPass(layers, refs),
        heap |-> h \o DefaultTensors(layers, g),
        rng |-> [g EXCEPT !.draws = @ + NumParams(layers)]]

\* NeuralNet(layers, activation, preset_weights=preset): the network's
\* parameters are the preset tensors, an output layer wider than the
\* network's being narrowed to its first rows.
NeuralNetPreset(layers, g, h, preset) ==
    LET refs == [k \in 1..NumParams(layers) |->
                    [addr |-> preset[k], rows |-> OutFeatures(layers, k)]]
    IN [model |-> ForwardPass(layers, refs),
        heap |-> h,
        rng |-> [g EXCEPT !.draws = @ + NumParams(layers)]]

\* model.parameters() / named_parameters(): the references, in order.
Parameters(model) ==
    [k \in 1..Len(model) |->
        IF k % 2 = 1 THEN model[k].weight[1] ELSE model[k - 1].bias[1]]

\* The storage a model computes with.
Storage(model) ==
    LET params == Parameters(model) IN {params[k].addr : k \in 1..Len(params)}

\* optimizer.step(): every parameter of the model is updated in place.
OptimizerStep(model, h) ==
    LET storage == Storage(model) IN
    [a \in 1..Len(h) |->
        IF a \in storage THEN [h[a] EXCEPT !.steps = @ + 1] ELSE h[a]]

\* The batches of one epoch, each ending in optimizer.step().
RECURSIVE RunBatches(_, _, _)
RunBatches(model, h, n) ==
    IF n = 0 THEN h ELSE RunBatches(model, OptimizerStep(model, h), n - 1)

\* The number of optimizer steps a model's parameters reflect.
Updates(model, h) ==
    LET steps == {h[a].steps : a \in Storage(model)}
    IN CHOOSE m \in steps : \A x \in steps : x <= m

\* roc_auc_score / average_precision_score of a model's predictions on a
\* split: the record of what the number is computed from (the model, by the
\* local name it is read through, and the updates its parameters had).
Metric(metric, on, name, updates) ==
    [metric |-> metric, split |-> on, model |-> name, updates |-> updates]

\* ------------------------------------------------------- early stopping
\* Lines 129-138 (and their copies 213-222, 286-295).
EarlyStop(score, best, suc, pat) ==
    LET suc2 == suc + 1
        tracked == suc2 >= start_up
        improved == score > best
    IN [best |-> IF tracked /\ improved THEN score ELSE best,
        start_up_counter |-> suc2,
        patience_counter |-> IF tracked THEN (IF improved THEN 0 ELSE pat + 1)
                                        ELSE pat,
        break |-> tracked /\ (IF improved THEN 0 ELSE pat + 1) >= patience]

Scores == 0..MaxScore
Labels(seq, idx) == [i \in 1..Len(idx) |-> seq[idx[i]]]

\* ------------------------------------------------------------------ init
Init ==
    /\ single_config \in SingleConfigs
    /\ multi_config \in MultiConfigs
    /\ performance \in BOOLEAN
    /\ run_refined \in BOOLEAN
    /\ epochs \in 0..MaxEpochs
    /\ patience \in 1..MaxPatience
    /\ start_up \in 0..MaxStartUp
    /\ random_seed \in RandomSeeds
    /\ x_sub_train = <<>> /\ x_sub_val = <<>>
    /\ e1_sub_train = <<>> /\ e2_sub_train = <<>>
    /\ train_epochs = <<>>
    /\ single_valid_loss_list = <<>>
    /\ multi_valid_loss_list = <<>>
    /\ refined_valid_loss_list = <<>>
    /\ best_single_val_loss = 0
    /\ best_multi_val_loss = 0
    /\ best_refined_val_loss = 0
    /\ start_up_counter = 0
    /\ patience_counter = 0
    /\ single_model = <<>> /\ multi_model = <<>> /\ refined_model = <<>>
    /\ single_valid = <<>> /\ multi_valid = <<>>
    /\ X = <<>> /\ Y = <<>>
    /\ bound = {}
    /\ rng = [seed |-> -1, draws |-> 0]
    /\ heap = <<>>
    /\ pc = "start"
    /\ e = 0
    /\ result = NoResult

\* Lines 36-81: the split, the schedule, the single trainer's state, the seed.
Setup ==
    /\ pc = "start"
    /\ LET s == train_test_split(random_seed) IN
        /\ x_sub_train' = Labels(x_train, s.train)
        /\ x_sub_val' = Labels(x_train, s.val)
        /\ e1_sub_train' = Labels(e1_train, s.train)
        /\ e2_sub_train' = Labels(e2_train, s.train)
        /\ train_epochs' = create_batches(Len(s.train), batch_size, epochs,
                                          random_seed)
    /\ single_valid_loss_list' = <<>>
    /\ best_single_val_loss' = 0
    /\ start_up_counter' = 0
    /\ patience_counter' = 0
    /\ rng' = set_torch_seed(random_seed)
    /\ bound' = bound \cup {"single_valid_loss_list", "best_single_val_loss"}
    /\ pc' = "single"
    /\ UNCHANGED <<args, multi_valid_loss_list, refined_valid_loss_list,
                   best_multi_val_loss, best_refined_val_loss, models, valids,
                   X, Y, heap, e, result>>

\* Where a training loop goes after its epoch: on, or out of the loop.
LoopExit(brk, done) == brk \/ done = Len(train_epochs)

\* ------------------------------------------------------- single trainer
\* Lines 84-90: the network and its optimizer, or nothing without a config.
SingleInit ==
    /\ pc = "single"
    /\ IF single_config.given
       THEN LET n == NeuralNet(<<Len(FeatureNames)>> \o single_config.hidden_layers
                               \o <<1>>, rng, heap) IN
            /\ single_model' = n.model
            /\ heap' = n.heap
            /\ rng' = n.rng
            /\ bound' = bound \cup {"single_model"}
            /\ pc' = IF Len(train_epochs) = 0 THEN "single_final" ELSE "single_loop"
       ELSE /\ pc' = "multi_setup"
            /\ UNCHANGED <<single_model, heap, rng, bound>>
    /\ e' = 0
    /\ UNCHANGED <<args, split, lists, bests, counters, multi_model,
                   refined_model, valids, X, Y, result>>

\* Line 96: the single trainer's label rows of a batch.
SingleLabels(batch) == [i \in 1..Len(batch) |-> <<e1_sub_train[batch[i]]>>]

\* Lines 92-138: one epoch: every batch updates the parameters, then the
\* epoch's validation score is recorded and the early-stopping rule applied.
SingleEpoch ==
    /\ pc = "single_loop"
    /\ LET batches == train_epochs[e + 1] IN
        /\ X' = Labels(x_sub_train, batches[Len(batches)])
        /\ Y' = SingleLabels(batches[Len(batches)])
        /\ heap' = RunBatches(single_model, heap, Len(batches))
    /\ \E single_valid_loss \in Scores :
        LET s == EarlyStop(single_valid_loss, best_single_val_loss,
                           start_up_counter, patience_counter) IN
        /\ single_valid_loss_list' = Append(single_valid_loss_list, single_valid_loss)
        /\ best_single_val_loss' = s.best
        /\ start_up_counter' = s.start_up_counter
        /\ patience_counter' = s.patience_counter
        /\ pc' = IF LoopExit(s.break, e + 1) THEN "single_final" ELSE "single_loop"
    /\ e' = e + 1
    /\ UNCHANGED <<args, split, multi_valid_loss_list, refined_valid_loss_list,
                   best_multi_val_loss, best_refined_val_loss, models, valids,
                   bound, rng, result>>

\* Lines 140-143: the single model's validation metrics.
SingleFinal ==
    /\ pc = "single_final"
    /\ LET u == Updates(single_model, heap) IN
        single_valid' = <<Metric("auc", "val", "single_model", u),
                          Metric("ap", "val", "single_model", u)>>
    /\ bound' = bound \cup {"single_valid_auc", "single_valid_ap"}
    /\ pc' = "multi_setup"
    /\ UNCHANGED <<args, split, lists, bests, counters, models, multi_valid,
                   X, Y, rng, heap, e, result>>

\* -------------------------------------------------------- multi trainer
\* A multi trainer that takes over the counters the single trainer left.
MultiSetupKeepsCounters ==
    /\ pc = "multi_setup"
    /\ multi_valid_loss_list' = <<>>
    /\ best_multi_val_loss' = 0
    /\ rng' = set_torch_seed(random_seed)
    /\ bound' = bound \cup {"multi_valid_loss_list", "best_multi_val_loss"}
    /\ pc' = "multi"
    /\ UNCHANGED <<args, split, single_valid_loss_list, refined_valid_loss_list,
                   best_single_val_loss, best_refined_val_loss, counters, models,
                   valids, X, Y, heap, e, result>>

\* Lines 147-152: the multi trainer's own history, best score and counters,
\* and the seed again.
MultiSetup ==
    /\ pc = "multi_setup"
    /\ multi_valid_loss_list' = <<>>
    /\ best_multi_val_loss' = 0
    /\ patience_counter' = 0
    /\ start_up_counter' = 0
    /\ rng' = set_torch_seed(random_seed)
    /\ bound' = bound \cup {"multi_valid_loss_list", "best_multi_val_loss"}
    /\ pc' = "multi"
    /\ UNCHANGED <<args, split, single_valid_loss_list, refined_valid_loss_list,
                   best_single_val_loss, best_refined_val_loss, models, valids,
                   X, Y, heap, e, result>>

\* Line 161: the position in forward_pass the second head is looked up at.
forward_pass_index == 4

\* Lines 160-164: row 1 of forward_pass[4]'s weight and element 1 of its bias
\* are assigned torch.zeros((hidden_layers[-1],)) and torch.zeros((1,)).
ZeroSecondHead(model, layers, hidden, h) ==
    LET p == forward_pass_index + 1 IN
    IF p > Len(model) THEN [exc |-> "IndexError", heap |-> h]
    ELSE IF model[p].type # "Linear" THEN [exc |-> "AttributeError", heap |-> h]
    ELSE LET w == model[p].weight[1]
             bias == model[p].bias[1]
             in_features == layers[(p + 1) \div 2]
         IN IF w.rows < 2 THEN [exc |-> "IndexError", heap |-> h]
            ELSE IF hidden[Len(hidden)] # in_features /\ hidden[Len(hidden)] # 1
            THEN [exc |-> "RuntimeError", heap |-> h]
            ELSE [exc |-> "",
                  heap |-> [h EXCEPT ![w.addr].zero_rows = @ \cup {2},
                                     ![bias.addr].zero_rows = @ \cup {2}]]

\* Lines 155-167: the two-output network, its second head zeroed, its
\* optimizer; or nothing without a config.
MultiInit ==
    /\ pc = "multi"
    /\ IF multi_config.given
       THEN LET layers == <<Len(FeatureNames)>> \o multi_config.hidden_layers \o <<2>>
                n == NeuralNet(layers, rng, heap)
                z == ZeroSecondHead(n.model, layers, multi_config.hidden_layers,
                                    n.heap)
            IN
            /\ multi_model' = n.model
            /\ heap' = z.heap
            /\ rng' = n.rng
            /\ bound' = bound \cup {"multi_model"}
            /\ IF z.exc # ""
               THEN pc' = "raised" /\ result' = Raise(z.exc, 161)
               ELSE /\ pc' = IF Len(train_epochs) = 0 THEN "multi_final"
                                                      ELSE "multi_loop"
                    /\ result' = result
       ELSE /\ pc' = "refined_setup"
            /\ UNCHANGED <<multi_model, heap, rng, bound, result>>
    /\ e' = 0
    /\ UNCHANGED <<args, split, lists, bests, counters, single_model,
                   refined_model, valids, X, Y>>

\* Lines 178-181: the two-column concatenation of both labels of a batch.
MultiLabels(batch) ==
    [i \in 1..Len(batch) |-> <<e1_sub_train[batch[i]], e2_sub_train[batch[i]]>>]

\* Lines 173-222: one epoch of the multi trainer.
MultiEpoch ==
    /\ pc = "multi_loop"
    /\ LET batches == train_epochs[e + 1] IN
        /\ X' = Labels(x_sub_train, batches[Len(batches)])
        /\ Y' = MultiLabels(batches[Len(batches)])
        /\ heap' = RunBatches(multi_model, heap, Len(batches))
    /\ \E multi_valid_loss \in Scores :
        LET s == EarlyStop(multi_valid_loss, best_multi_val_loss,
                           start_up_counter, patience_counter) IN
        /\ multi_valid_loss_list' = Append(multi_valid_loss_list, multi_valid_loss)
        /\ best_multi_val_loss' = s.best
        /\ start_up_counter' = s.start_up_counter
        /\ patience_counter' = s.patience_counter
        /\ pc' = IF LoopExit(s.break, e + 1) THEN "multi_final" ELSE "multi_loop"
    /\ e' = e + 1
    /\ UNCHANGED <<args, split, single_valid_loss_list, refined_valid_loss_list,
                   best_single_val_loss, best_refined_val_loss, models, valids,
                   bound, rng, result>>

\* Lines 224-227: the multi model's validation metrics (first output column).
MultiFinal ==
    /\ pc = "multi_final"
    /\ LET u == Updates(multi_model, heap) IN
        multi_valid' = <<Metric("auc", "val", "multi_model", u),
                         Metric("ap", "val", "multi_model", u)>>
    /\ bound' = bound \cup {"multi_valid_auc", "multi_valid_ap"}
    /\ pc' = "refined_setup"
    /\ UNCHANGED <<args, split, lists, bests, counters, models, single_valid,
                   X, Y, rng, heap, e, result>>

\* ------------------------------------------------------ refined trainer
\* Lines 230-235.
RefinedSetup ==
    /\ pc = "refined_setup"
    /\ refined_valid_loss_list' = <<>>
    /\ best_refined_val_loss' = 0
    /\ patience_counter' = 0
    /\ start_up_counter' = 0
    /\ rng' = set_torch_seed(random_seed)
    /\ bound' = bound \cup {"refined_valid_loss_list", "best_refined_val_loss"}
    /\ pc' = "refined"
    /\ UNCHANGED <<args, split, single_valid_loss_list, multi_valid_loss_list,
                   best_single_val_loss, best_multi_val_loss, models, valids,
                   X, Y, heap, e, result>>

\* A transfer that hands over the multi model's own tensors.
no_copy(h, addrs) == [heap |-> h, refs |-> addrs]

\* Line 242: copy.deepcopy of the list of param.data tensors: new storage
\* holding the same values.
deepcopy(h, addrs) ==
    [heap |-> h \o [k \in 1..Len(addrs) |-> h[addrs[k]]],
     refs |-> [k \in 1..Len(addrs) |-> Len(h) + k]]

\* Lines 237-248: the refined network from the copied multi parameters.
RefinedInit ==
    /\ pc = "refined"
    /\ IF run_refined
       THEN IF "multi_model" \notin bound
            THEN /\ pc' = "raised" /\ result' = Raise("NameError", 239)
                 /\ UNCHANGED <<refined_model, heap, rng, bound>>
            ELSE LET params == Parameters(multi_model)
                     multi_params == deepcopy(heap, [k \in 1..Len(params) |->
                                                        params[k].addr])
                     n == NeuralNetPreset(<<Len(FeatureNames)>>
                                          \o multi_config.hidden_layers \o <<1>>,
                                          rng, multi_params.heap, multi_params.refs)
                 IN
                 /\ refined_model' = n.model
                 /\ heap' = n.heap
                 /\ rng' = n.rng
                 /\ bound' = bound \cup {"refined_model"}
                 /\ pc' = IF Len(train_epochs) = 0 THEN "report" ELSE "refined_loop"
                 /\ result' = result
       ELSE /\ pc' = "report"
            /\ UNCHANGED <<refined_model, heap, rng, bound, result>>
    /\ e' = 0
    /\ UNCHANGED <<args, split, lists, bests, counters, single_model,
                   multi_model, valids, X, Y>>

\* Line 254: the refined trainer's label rows of a batch, read from e1_train.
RefinedLabels(batch) == [i \in 1..Len(batch) |-> <<e1_train[batch[i]]>>]

\* Lines 250-295: one epoch of the refined trainer.
RefinedEpoch ==
    /\ pc = "refined_loop"
    /\ LET batches == train_epochs[e + 1] IN
        /\ X' = Labels(x_sub_train, batches[Len(batches)])
        /\ Y' = RefinedLabels(batches[Len(batches)])
        /\ heap' = RunBatches(refined_model, heap, Len(batches))
    /\ \E refined_valid_loss \in Scores :
        LET s == EarlyStop(refined_valid_loss, best_refined_val_loss,
                           start_up_counter, patience_counter) IN
        /\ refined_valid_loss_list' = Append(refined_valid_loss_list,
                                             refined_valid_loss)
        /\ best_refined_val_loss' = s.best
        /\ start_up_counter' = s.start_up_counter
        /\ patience_counter' = s.patience_counter
        /\ pc' = IF LoopExit(s.break, e + 1) THEN "report" ELSE "refined_loop"
    /\ e' = e + 1
    /\ UNCHANGED <<args, split, single_valid_loss_list, multi_valid_loss_list,
                   best_single_val_loss, best_multi_val_loss, models, valids,
                   bound, rng, result>>

\* ---------------------------------------------------------------- report
\* Lines 317-333: the test metrics of every model, as a tuple.
TestMetrics ==
    LET s == Updates(single_model, heap)
        m == Updates(multi_model, heap)
        r == Updates(refined_model, heap)
        single_auc == Metric("auc", "test", "single_model", s)
        multi_auc == Metric("auc", "test", "multi_model", m)
        refined_auc == Metric("auc", "test", "refined_model", r)
        single_ap == Metric("ap", "test", "single_model", s)
        multi_ap == Metric("ap", "test", "multi_model", m)
        refined_ap == Metric("ap", "test", "refined_model", r)
    IN IF run_refined
       THEN <<single_auc, multi_auc, refined_auc, single_ap, multi_ap, refined_ap>>
       ELSE <<single_auc, multi_auc, single_ap, multi_ap>>

\* Lines 335-339: the validation pair of the single model if a single
\* config was given, of the multi model otherwise.
ValidMetrics ==
    IF single_config.given
    THEN Return("dict", single_valid)
    ELSE IF "multi_valid_auc" \in bound
         THEN Return("dict", multi_valid)
         ELSE Raise("NameError", 337)

\* Lines 317-339: the value returned, or the exception an unbound name raises.
Report ==
    /\ pc = "report"
    /\ result' =
        IF performance
        THEN IF "single_model" \notin bound THEN Raise("NameError", 320)
             ELSE IF "multi_model" \notin bound THEN Raise("NameError", 321)
             ELSE Return("tuple", TestMetrics)
        ELSE ValidMetrics
    /\ pc' = IF result'.kind = "raise" THEN "raised" ELSE "returned"
    /\ UNCHANGED <<args, split, lists, bests, counters, models, valids, X, Y,
                   bound, rng, heap, e>>

Next ==
    \/ Setup
    \/ SingleInit \/ SingleEpoch \/ SingleFinal
    \/ MultiSetup \/ MultiInit \/ MultiEpoch \/ MultiFinal
    \/ RefinedSetup \/ RefinedInit \/ RefinedEpoch
    \/ Report

Spec == Init /\ [][Next]_vars

\* ================================================================ claims
Last(seq) == seq[Len(seq)]
BatchesPerEpoch == IF train_epochs = <<>> THEN 0 ELSE Len(train_epochs[1])
\* The output layer of a network: the last Linear of its forward_pass.
OutputLayer(model) == model[Len(model) - 1]

\* ---- C1 ----------------------------------------------------------------
\* C1: whenever a trainer's loop exits through the patience break, the
\* number of epochs it completed is at least start_up + patience.
C1_NeverBeforeStartUpPlusPatience ==
    /\ (pc = "single_final" /\ patience_counter >= patience)
          => Len(single_valid_loss_list) >= start_up + patience
    /\ (pc = "multi_final" /\ patience_counter >= patience)
          => Len(multi_valid_loss_list) >= start_up + patience
    /\ (pc = "report" /\ patience_counter >= patience)
          => Len(refined_valid_loss_list) >= start_up + patience

\* ---- C2 ----------------------------------------------------------------
\* The early-stopping rule as the claim states it, for the epoch numbered
\* e + 1 of a loop whose best-seen score goes from best to best_next.
C2_Rule(best, best_next, score) ==
    IF e + 1 <= start_up
    THEN best_next = best /\ patience_counter' = patience_counter
    ELSE /\ score > best => (best_next = score /\ patience_counter' = 0)
         /\ score <= best => (best_next = best
                              /\ patience_counter' = patience_counter + 1)
         /\ patience_counter' >= patience => pc' # pc
         /\ (pc' # pc /\ e + 1 < Len(train_epochs))
               => patience_counter' >= patience

\* C2: the first start_up epochs change neither the best-seen score nor the
\* patience counter; every later epoch increments the counter when its score
\* does not exceed the best and resets it (updating the best) when it does,
\* and the loop ends at the first epoch at which the counter reaches patience.
C2_EarlyStoppingProtocol ==
    [][/\ pc = "single_loop" =>
            C2_Rule(best_single_val_loss, best_single_val_loss',
                    Last(single_valid_loss_list'))
       /\ pc = "multi_loop" =>
            C2_Rule(best_multi_val_loss, best_multi_val_loss',
                    Last(multi_valid_loss_list'))
       /\ pc = "refined_loop" =>
            C2_Rule(best_refined_val_loss, best_refined_val_loss',
                    Last(refined_valid_loss_list'))]_vars

\* ---- C3 ----------------------------------------------------------------
\* The epoch numbered e + 1 is the first one to take part in best-tracking.
C3_FirstTrackedEpoch == e + 1 >= start_up /\ (e = 0 \/ e < start_up)

\* C3: a validation score of exactly 0 in the first epoch that takes part in
\* best-tracking does not increment the patience counter.
C3_ZeroScoreIsNoRegression ==
    [][/\ (pc = "single_loop" /\ C3_FirstTrackedEpoch
              /\ Last(single_valid_loss_list') = 0)
            => patience_counter' = patience_counter
       /\ (pc = "multi_loop" /\ C3_FirstTrackedEpoch
              /\ Last(multi_valid_loss_list') = 0)
            => patience_counter' = patience_counter
       /\ (pc = "refined_loop" /\ C3_FirstTrackedEpoch
              /\ Last(refined_valid_loss_list') = 0)
            => patience_counter' = patience_counter]_vars

\* ---- C4 ----------------------------------------------------------------
\* C4: once the refined model exists it shares no storage with the multi
\* model; at the point of transfer its parameters hold the values of the
\* multi model's; and whatever the refined trainer does, every parameter of
\* the multi model stays as multi-task training left it (one update per
\* batch of each epoch the multi trainer completed), which is also what its
\* test metrics are computed from.
C4_RefinedOwnsACopy ==
    "refined_model" \in bound =>
        /\ Storage(refined_model) \cap Storage(multi_model) = {}
        /\ (Len(refined_valid_loss_list) = 0 /\ pc \in {"refined_loop", "report"})
              => \A k \in 1..Len(multi_model) :
                    heap[Parameters(refined_model)[k].addr]
                        = heap[Parameters(multi_model)[k].addr]
        /\ \A a \in Storage(multi_model) :
              heap[a].steps = Len(multi_valid_loss_list) * BatchesPerEpoch
        /\ (pc = "returned" /\ performance)
              => result.values[2].updates
                    = Len(multi_valid_loss_list) * BatchesPerEpoch

\* The refined trainer has trained on its copy and the call has returned the
\* test metrics.
C4_Witness ==
    /\ pc = "returned" /\ performance /\ run_refined
    /\ Len(refined_valid_loss_list) >= 1
    /\ Len(multi_valid_loss_list) >= 1
    /\ \E a \in Storage(refined_model) : heap[a].steps > 0

\* ---- C5 ----------------------------------------------------------------
\* The multi network is initialised and no optimizer step has run.
C5_JustInitialised ==
    \/ pc = "multi_loop" /\ e = 0
    \/ pc = "multi_final" /\ epochs = 0

\* C5: right after initialization row 1 of the output layer's weight and
\* element 1 of its bias are exactly zero, row 0 and element 0 are the
\* default initializer's, whatever the hidden-layer widths.
C5_SecondHeadZero ==
    C5_JustInitialised =>
        LET w == heap[OutputLayer(multi_model).weight[1].addr]
            bias == heap[OutputLayer(multi_model).bias[1].addr]
        IN /\ w.zero_rows = {2} /\ w.steps = 0
           /\ bias.zero_rows = {2} /\ bias.steps = 0

\* ---- C6 ----------------------------------------------------------------
\* Parameter k of a network is the k-th draw of the generator restarted
\* from the call's seed, and no optimizer step has touched it.
C6_Untouched(model) ==
    \A k \in 1..Len(model) :
        LET t == heap[Parameters(model)[k].addr]
        IN t.seed = random_seed /\ t.draw = k - 1 /\ t.steps = 0

\* C6: with epochs = 0 no history is appended to, every network stays the
\* initial network of the call's seed (the refined one the copy of the multi
\* one), and every returned metric is computed from parameters no update has
\* touched.
C6_ZeroEpochs ==
    epochs = 0 =>
        /\ single_valid_loss_list = <<>>
        /\ multi_valid_loss_list = <<>>
        /\ refined_valid_loss_list = <<>>
        /\ "single_model" \in bound => C6_Untouched(single_model)
        /\ "multi_model" \in bound => C6_Untouched(multi_model)
        /\ "refined_model" \in bound => C6_Untouched(refined_model)
        /\ \A a \in 1..Len(heap) : heap[a].steps = 0
        /\ pc = "returned" =>
              \A i \in 1..Len(result.values) : result.values[i].updates = 0

\* A zero-epoch call with both configs has returned.
C6_Witness ==
    /\ epochs = 0 /\ pc = "returned"
    /\ single_config.given /\ multi_config.given
    /\ Len(result.values) >= 2

\* ---- C7 ----------------------------------------------------------------
\* The call has left through the report (lines 317-339).
AtReport == pc = "returned" \/ (pc = "raised" /\ result.line >= 317)

\* C7: with performance true the report returns the test metrics of every
\* model, four values without refinement and six with it, whether or not
\* single_config and multi_config were supplied.
C7_TestMetricsReturned ==
    (performance /\ AtReport) =>
        /\ result.kind = "tuple"
        /\ Len(result.values) = IF run_refined THEN 6 ELSE 4
        /\ \A i \in 1..Len(result.values) : result.values[i].split = "test"

\* ---- C8 ----------------------------------------------------------------
\* The (auc, ap) pair computed on the validation split from the model read
\* through the given name.
C8_ValidPairOf(values, name) ==
    /\ Len(values) = 2
    /\ values[1].metric = "auc" /\ values[2].metric = "ap"
    /\ \A i \in 1..2 : values[i].split = "val" /\ values[i].model = name

\* C8: a call with performance false ends by returning only the validation
\* pair, the single model's whenever single_config is supplied and the multi
\* model's when only multi_config is supplied. Stated of every call that
\* supplies a configuration, however it ends.
C8_ValidationPairReturned ==
    (~performance /\ pc \in {"returned", "raised"}) =>
        /\ single_config.given =>
              /\ pc = "returned" /\ result.kind = "dict"
              /\ C8_ValidPairOf(result.values, "single_model")
        /\ (~single_config.given /\ multi_config.given) =>
              /\ pc = "returned" /\ result.kind = "dict"
              /\ C8_ValidPairOf(result.values, "multi_model")

\* ---- C9 ----------------------------------------------------------------
\* C9: in the batch last processed, the label paired with each feature row
\* is the primary label of that row's sample.
C9_LabelsAligned ==
    \A i \in 1..Len(X) : Y[i][1] = e1_train[X[i]]

\* ---- C10 ---------------------------------------------------------------
\* C10: each trainer starts its loop with patience counter 0, start-up
\* counter 0, best-seen score 0 and an empty history, whatever the trainer
\* before it did; a later trainer's history is empty while an earlier
\* trainer runs; and a history holds one score per epoch completed.
C10_IndependentState ==
    /\ (pc \in {"single_loop", "multi_loop", "refined_loop"} /\ e = 0)
          => patience_counter = 0 /\ start_up_counter = 0
    /\ (pc = "single_loop" /\ e = 0)
          => best_single_val_loss = 0 /\ single_valid_loss_list = <<>>
    /\ (pc = "multi_loop" /\ e = 0)
          => best_multi_val_loss = 0 /\ multi_valid_loss_list = <<>>
    /\ (pc = "refined_loop" /\ e = 0)
          => best_refined_val_loss = 0 /\ refined_valid_loss_list = <<>>
    /\ pc \in {"single", "single_loop", "single_final", "multi_setup", "multi"}
          => multi_valid_loss_list = <<>>
    /\ pc \in {"single", "single_loop", "single_final", "multi_setup", "multi",
               "multi_loop", "multi_final", "refined_setup", "refined"}
          => refined_valid_loss_list = <<>>
    /\ pc \in {"single_loop", "single_final"} => Len(single_valid_loss_list) = e
    /\ pc \in {"multi_loop", "multi_final"} => Len(multi_valid_loss_list) = e
    /\ pc \in {"refined_loop", "report"} => Len(refined_valid_loss_list) = e
    /\ pc \in {"single_loop", "multi_loop", "refined_loop"}
          => start_up_counter = e

\* The multi trainer starts its loop after the single trainer stopped early
\* with a non-zero patience counter.
C10_Witness ==
    /\ pc = "multi_loop" /\ e = 0
    /\ single_config.given
    /\ 1 <= Len(single_valid_loss_list)
    /\ Len(single_valid_loss_list) < epochs
====
